---------------------------- MODULE Spec2Model ----------------------------
(***************************************************************************)
(* The node editing dialog of src/features/modals/NodeModal/index.tsx:     *)
(* the component state (editedValues, editMode), its props and stores      *)
(* (opened, selectedNode, the file contents), the Edit / Cancel / Save     *)
(* handlers, the asynchronous handleSave with its three awaits, and the    *)
(* pure helpers inferValue and setAtPath.                                  *)
(*                                                                         *)
(* Strings are sequences of one-character strings, so that String(),       *)
(* JSON.parse and the numeric pattern are computed character by character. *)
(* JSON values are tagged records:                                         *)
(*   [t |-> "null"], [t |-> "undefined"] (a hole or a missing property),   *)
(*   [t |-> "boolean", b], [t |-> "number", m, d] (the number m / 10^d),   *)
(*   [t |-> "string", s], [t |-> "object", f] (f: keys -> values) and      *)
(*   [t |-> "array", a, x] (a: the elements, x: the non-index properties). *)
(***************************************************************************)
EXTENDS Integers, Sequences, FiniteSets, TLC

(***************************************************************************)
(* Values                                                                  *)
(***************************************************************************)
Null == [t |-> "null"]
Undefined == [t |-> "undefined"]
Bool(b) == [t |-> "boolean", b |-> b]
Str(s) == [t |-> "string", s |-> s]
Obj(f) == [t |-> "object", f |-> f]
NoProps == [k \in {} |-> Null]
Arr(a) == [t |-> "array", a |-> a, x |-> NoProps]

RECURSIVE Pow10(_)
Pow10(n) == IF n <= 0 THEN 1 ELSE 10 * Pow10(n - 1)

\* The number m * 10^(-d), d any integer, in normal form: m ends in no zero,
\* so that 70, 7e1 and 0.7e2 are one value, and an exponent of any size is
\* kept as it is.  -0 is kept as 0: JSON.stringify and String() print both
\* as "0".
RECURSIVE Num(_, _)
Num(m, d) ==
    IF m = 0 THEN [t |-> "number", m |-> 0, d |-> 0]
    ELSE IF m % 10 = 0 THEN Num(m \div 10, d - 1)
    ELSE [t |-> "number", m |-> m, d |-> d]

IntNum(n) == Num(n, 0)

(***************************************************************************)
(* Characters                                                              *)
(***************************************************************************)
Digits == <<"0", "1", "2", "3", "4", "5", "6", "7", "8", "9">>
IsDigit(c) == \E i \in 1..10 : Digits[i] = c
DigitVal(c) == (CHOOSE i \in 1..10 : Digits[i] = c) - 1
IsSpace(c) == c \in {" ", "\n"}

\* The decimal digits of a natural number.
RECURSIVE NatChars(_)
NatChars(n) ==
    IF n < 10 THEN <<Digits[n + 1]>>
    ELSE Append(NatChars(n \div 10), Digits[(n % 10) + 1])

\* The value of the digits s[from..to], read as a decimal numeral.
RECURSIVE DigitsVal(_, _, _)
DigitsVal(s, from, to) ==
    IF to < from THEN 0
    ELSE 10 * DigitsVal(s, from, to - 1) + DigitVal(s[to])

\* n zeros.
RECURSIVE Zeros(_)
Zeros(n) == IF n <= 0 THEN <<>> ELSE <<"0">> \o Zeros(n - 1)


At(s, i) == IF i >= 1 /\ i <= Len(s) THEN s[i] ELSE ""
Matches(s, i, w) == i + Len(w) - 1 <= Len(s) /\ SubSeq(s, i, i + Len(w) - 1) = w

(***************************************************************************)
(* String(value), as the seeding of the edit buffer applies it to a row's  *)
(* value (lines 50, 204).  A number prints in plain decimal notation,      *)
(* which is what String() gives for 1e-6 <= |v| < 1e21; the numbers of     *)
(* this model stay in that range.  Only scalar values are converted: the   *)
(* rows that are seeded carry no array or object.                          *)
(***************************************************************************)
FracChars(fr, d) == IF d = 0 THEN <<>> ELSE <<".">> \o Zeros(d - Len(fr)) \o fr
DecChars(n, d) ==
    IF d <= 0 THEN NatChars(n) \o Zeros(-d)
    ELSE NatChars(n \div Pow10(d)) \o FracChars(NatChars(n % Pow10(d)), d)
NumChars(m, d) == IF m < 0 THEN <<"-">> \o DecChars(-m, d) ELSE DecChars(m, d)

JSString(v) ==
    CASE v.t = "string" -> v.s
      [] v.t = "number" -> NumChars(v.m, v.d)
      [] v.t = "boolean" -> IF v.b THEN <<"t", "r", "u", "e">>
                                   ELSE <<"f", "a", "l", "s", "e">>
      [] v.t = "null" -> <<"n", "u", "l", "l">>
      [] v.t = "undefined" -> <<"u", "n", "d", "e", "f", "i", "n", "e", "d">>

(***************************************************************************)
(* JSON.parse (line 64) on a string without backslashes and control        *)
(* characters: a recursive descent over the RFC 8259 grammar.  A result is *)
(* [ok, v, i]: whether a value was read, the value, the position after it. *)
(* Each step hands what it has read to the next as a parameter.            *)
(***************************************************************************)
ParseFail == [ok |-> FALSE, v |-> Null, i |-> 0]
ParseOk(v, i) == [ok |-> TRUE, v |-> v, i |-> i]

RECURSIVE SkipWs(_, _)
SkipWs(s, i) == IF IsSpace(At(s, i)) THEN SkipWs(s, i + 1) ELSE i

\* number = [ "-" ] ( "0" / digit1-9 *digit ) [ "." 1*digit ]
\*          [ ("e" / "E") [ "+" / "-" ] 1*digit ]
\* read by an automaton: st is the part being read, c the character at i,
\* sg the sign, m the digits so far, d the number of fraction digits, es and
\* e the sign and the digits of the exponent.
RECURSIVE NumScan(_, _, _, _, _, _, _, _)
NumStep(s, i, c, st, sg, m, d, es, e) ==
    IF st = "start"
    THEN IF c = "0" THEN NumScan(s, i + 1, "zero", sg, 0, 0, 1, 0)
         ELSE IF IsDigit(c) THEN NumScan(s, i + 1, "int", sg, DigitVal(c), 0, 1, 0)
         ELSE ParseFail
    ELSE IF st \in {"zero", "int", "frac"} /\ c \in {"e", "E"}
    THEN NumScan(s, i + 1, "e", sg, m, d, 1, 0)
    ELSE IF st \in {"zero", "int"} /\ c = "."
    THEN NumScan(s, i + 1, "dot", sg, m, d, 1, 0)
    ELSE IF st = "int" /\ IsDigit(c)
    THEN NumScan(s, i + 1, "int", sg, 10 * m + DigitVal(c), 0, 1, 0)
    ELSE IF st \in {"dot", "frac"} /\ IsDigit(c)
    THEN NumScan(s, i + 1, "frac", sg, 10 * m + DigitVal(c), d + 1, 1, 0)
    ELSE IF st = "e" /\ c \in {"+", "-"}
    THEN NumScan(s, i + 1, "sign", sg, m, d, IF c = "-" THEN -1 ELSE 1, 0)
    ELSE IF st \in {"e", "sign", "exp"} /\ IsDigit(c)
    THEN NumScan(s, i + 1, "exp", sg, m, d, es, 10 * e + DigitVal(c))
    ELSE IF st \in {"zero", "int", "frac", "exp"}
    THEN ParseOk(Num(sg * m, d - es * e), i)
    ELSE ParseFail

NumScan(s, i, st, sg, m, d, es, e) == NumStep(s, i, At(s, i), st, sg, m, d, es, e)

ParseNumber(s, i) ==
    IF At(s, i) = "-" THEN NumScan(s, i + 1, "start", -1, 0, 0, 1, 0)
    ELSE NumScan(s, i, "start", 1, 0, 0, 1, 0)

\* The position of the first quote at or after i, 0 if there is none.
RECURSIVE QuoteFrom(_, _)
QuoteFrom(s, i) ==
    IF i > Len(s) THEN 0 ELSE IF s[i] = "\"" THEN i ELSE QuoteFrom(s, i + 1)

\* The string whose opening quote is at i and whose closing quote is at j.
StringTo(s, i, j) ==
    IF j = 0 THEN ParseFail ELSE ParseOk(Str(SubSeq(s, i + 1, j - 1)), j + 1)
ParseString(s, i) ==
    IF At(s, i) = "\"" THEN StringTo(s, i, QuoteFrom(s, i + 1)) ELSE ParseFail

ParseLiteral(s, i, w, v) == IF Matches(s, i, w) THEN ParseOk(v, i + Len(w)) ELSE ParseFail

\* f with key k bound to v (a later duplicate member replaces an earlier one).
PutKey(f, k, v) == [x \in DOMAIN f \cup {k} |-> IF x = k THEN v ELSE f[x]]

RECURSIVE ParseValue(_, _)
RECURSIVE ParseElems(_, _, _)
RECURSIVE ParseMembers(_, _, _)

\* after an element: "," and the next element, or "]"
ElemsNext(s, acc, k) ==
    IF At(s, k) = "," THEN ParseElems(s, SkipWs(s, k + 1), acc)
    ELSE IF At(s, k) = "]" THEN ParseOk(Arr(acc), k + 1)
    ELSE ParseFail
ElemsAdd(s, acc, r) ==
    IF r.ok THEN ElemsNext(s, Append(acc, r.v), SkipWs(s, r.i)) ELSE ParseFail
ParseElems(s, i, acc) == ElemsAdd(s, acc, ParseValue(s, i))

\* after a member: "," and the next member, or "}"
MembersNext(s, acc, k) ==
    IF At(s, k) = "," THEN ParseMembers(s, SkipWs(s, k + 1), acc)
    ELSE IF At(s, k) = "}" THEN ParseOk(Obj(acc), k + 1)
    ELSE ParseFail
MemberAdd(s, acc, key, r) ==
    IF r.ok THEN MembersNext(s, PutKey(acc, key, r.v), SkipWs(s, r.i)) ELSE ParseFail
MemberColon(s, acc, key, c) ==
    IF At(s, c) = ":" THEN MemberAdd(s, acc, key, ParseValue(s, SkipWs(s, c + 1)))
    ELSE ParseFail
MemberKey(s, acc, key) ==
    IF key.ok THEN MemberColon(s, acc, key.v.s, SkipWs(s, key.i)) ELSE ParseFail
ParseMembers(s, i, acc) == MemberKey(s, acc, ParseString(s, i))

\* the array or object whose bracket is before j
ParseArray(s, j) ==
    IF At(s, j) = "]" THEN ParseOk(Arr(<<>>), j + 1) ELSE ParseElems(s, j, <<>>)
ParseObject(s, j) ==
    IF At(s, j) = "}" THEN ParseOk(Obj(NoProps), j + 1) ELSE ParseMembers(s, j, NoProps)

\* the value that starts at i with character c
ParseFrom(s, i, c) ==
    CASE c = "n" -> ParseLiteral(s, i, <<"n", "u", "l", "l">>, Null)
      [] c = "t" -> ParseLiteral(s, i, <<"t", "r", "u", "e">>, Bool(TRUE))
      [] c = "f" -> ParseLiteral(s, i, <<"f", "a", "l", "s", "e">>, Bool(FALSE))
      [] c = "\"" -> ParseString(s, i)
      [] c = "-" \/ IsDigit(c) -> ParseNumber(s, i)
      [] c = "[" -> ParseArray(s, SkipWs(s, i + 1))
      [] c = "{" -> ParseObject(s, SkipWs(s, i + 1))
      [] OTHER -> ParseFail
ParseValue(s, i) == ParseFrom(s, i, At(s, i))

\* JSON.parse(val): ok is FALSE where JSON.parse throws a SyntaxError.
WholeText(s, r) == IF r.ok /\ SkipWs(s, r.i) = Len(s) + 1 THEN r ELSE ParseFail
JSONparse(s) == WholeText(s, ParseValue(s, SkipWs(s, 1)))

\* /^-?\d+(?:\.\d+)?$/ (line 66) as an automaton, with the number the
\* digits read so far denote: [ok, v].
RECURSIVE PatternScan(_, _, _, _, _, _)
PatternStep(s, i, c, st, sg, m, d) ==
    CASE st \in {"start", "int"} /\ IsDigit(c) ->
           PatternScan(s, i + 1, "int", sg, 10 * m + DigitVal(c), 0)
      [] st = "int" /\ c = "." -> PatternScan(s, i + 1, "dot", sg, m, 0)
      [] st \in {"dot", "frac"} /\ IsDigit(c) ->
           PatternScan(s, i + 1, "frac", sg, 10 * m + DigitVal(c), d + 1)
      [] OTHER -> [ok |-> st \in {"int", "frac"} /\ i = Len(s) + 1, v |-> Num(sg * m, d)]
PatternScan(s, i, st, sg, m, d) == PatternStep(s, i, At(s, i), st, sg, m, d)
PatternRead(s) ==
    IF At(s, 1) = "-" THEN PatternScan(s, 2, "start", -1, 0, 0)
    ELSE PatternScan(s, 1, "start", 1, 0, 0)

\* /^-?\d+(?:\.\d+)?$/.test(val)  (line 66)
NumericPattern(s) == PatternRead(s).ok
\* Number(val), for a val the pattern accepts  (line 66)
NumberOf(s) == PatternRead(s).v

\* a catch that returns the raw string at once
inferFallbackRaw(val) == Str(val)

\* lines 65-70: the catch
inferFallback(val) ==
    IF NumericPattern(val) THEN NumberOf(val)
    ELSE IF val = <<"t", "r", "u", "e">> THEN Bool(TRUE)
    ELSE IF val = <<"f", "a", "l", "s", "e">> THEN Bool(FALSE)
    ELSE Str(val)

\* lines 63-70, given what JSON.parse does on val
inferParsed(val, p) == IF p.ok THEN p.v ELSE inferFallback(val)

\* inferValue  (lines 61-71)
inferValue(val) == IF val = <<>> THEN Null ELSE inferParsed(val, JSONparse(val))

(***************************************************************************)
(* Property access on a value, as target[p] reads and writes it.  A        *)
(* numeric p is used under its decimal spelling.  The keys of this model   *)
(* are neither "length" nor names of Object.prototype members.             *)
(***************************************************************************)
KeySeg(k) == [ty |-> "string", k |-> k]
IdxSeg(i) == [ty |-> "number", i |-> i]
PropKey(p) == IF p.ty = "number" THEN NatChars(p.i) ELSE p.k

IsIndexKey(k) ==
    /\ Len(k) >= 1
    /\ \A i \in 1..Len(k) : IsDigit(k[i])
    /\ (Len(k) = 1 \/ k[1] # "0")
IndexOf(k) == DigitsVal(k, 1, Len(k))

IsContainer(v) == v.t \in {"object", "array"}

\* element n (counted from 0) of the sequence a, Undefined beyond its end
ElementAt(a, n) == IF n < Len(a) THEN a[n + 1] ELSE Undefined

\* target[k]: Undefined for a missing property.
GetProp(target, k) ==
    CASE target.t = "object" ->
           IF k \in DOMAIN target.f THEN target.f[k] ELSE Undefined
      [] target.t = "array" /\ IsIndexKey(k) -> ElementAt(target.a, IndexOf(k))
      [] target.t = "array" /\ ~IsIndexKey(k) ->
           IF k \in DOMAIN target.x THEN target.x[k] ELSE Undefined
      [] target.t = "string" /\ IsIndexKey(k) ->
           IF IndexOf(k) < Len(target.s) THEN Str(<<target.s[IndexOf(k) + 1]>>) ELSE Undefined
      [] OTHER -> Undefined

\* Reading a property of null or undefined throws a TypeError.
CanRead(target) == target.t \notin {"null", "undefined"}

Thrown == [ok |-> FALSE, v |-> Undefined]
Done(v) == [ok |-> TRUE, v |-> v]

\* a[n] = v (n counted from 0): the array grows with holes up to n.
SetElement(a, n, len, v) ==
    [j \in 1..(IF n + 1 > len THEN n + 1 ELSE len) |->
        IF j = n + 1 THEN v ELSE IF j <= len THEN a[j] ELSE Undefined]

\* target[k] = v.  A write on a primitive, null or undefined throws a
\* TypeError (module code is strict).
SetProp(target, k, v) ==
    CASE target.t = "object" -> Done(Obj(PutKey(target.f, k, v)))
      [] target.t = "array" /\ IsIndexKey(k) ->
           Done([target EXCEPT !.a = SetElement(target.a, IndexOf(k), Len(target.a), v)])
      [] target.t = "array" /\ ~IsIndexKey(k) ->
           Done([target EXCEPT !.x = PutKey(target.x, k, v)])
      [] OTHER -> Thrown

(***************************************************************************)
(* setAtPath  (lines 73-92).  The walk mutates obj in place; here each     *)
(* step returns the container it was given with the mutation applied.      *)
(***************************************************************************)
RECURSIVE Walk(_, _, _, _, _)

\* line 79 without its test of the next segment
FreshObject(path, i) == Obj(NoProps)

\* line 79: the container made for a missing target[path[i]]
Fresh(path, i) ==
    IF i + 1 <= Len(path) /\ path[i + 1].ty = "number" THEN Arr(<<>>) ELSE Obj(NoProps)

\* the walk below target[p] is over: target, holding what it left
WalkBack(target, p, sub) ==
    IF ~sub.ok THEN Thrown
    ELSE IF IsContainer(target) THEN SetProp(target, p, sub.v)
    ELSE Done(target)

\* line 81, after lines 78-80 made target[p] where it was missing
WalkDown(path, i, key, value, p, made) ==
    IF ~made.ok THEN Thrown
    ELSE WalkBack(made.v, p, Walk(GetProp(made.v, p), path, i + 1, key, value))

\* lines 77-81 without the test of line 78: target[p] is made anew each time
WalkSegmentRemaking(target, path, i, key, value, p) ==
    WalkDown(path, i, key, value, p, SetProp(target, p, Fresh(path, i)))

\* lines 77-81 for segment i, p its property key
WalkSegment(target, path, i, key, value, p) ==
    WalkDown(path, i, key, value, p,
             IF GetProp(target, p) = Undefined THEN SetProp(target, p, Fresh(path, i))
             ELSE Done(target))

\* lines 76-82 from segment i on, then lines 85-91 on the target reached
Walk(target, path, i, key, value) ==
    IF i > Len(path)
    THEN IF key.t = "null" THEN Done(target) ELSE SetProp(target, key.s, value)
    ELSE IF ~CanRead(target) THEN Thrown
    ELSE WalkSegment(target, path, i, key, value, PropKey(path[i]))

\* ok: no exception; ret: the value returned; obj: obj after the call.
Walked(key, value, w) ==
    [ok |-> w.ok, ret |-> IF key.t = "null" THEN value ELSE w.v, obj |-> w.v]
setAtPath(obj, path, key, value) == Walked(key, value, Walk(obj, path, 1, key, value))

(***************************************************************************)
(* JSON.stringify (lines 103, 120), as the value its text denotes: a hole  *)
(* or undefined element of an array becomes null, an undefined property of *)
(* an object and the non-index properties of an array are left out.        *)
(***************************************************************************)
RECURSIVE JSONstringify(_)
JSONstringify(v) ==
    CASE v.t = "object" ->
           Obj([k \in {k \in DOMAIN v.f : v.f[k].t # "undefined"} |-> JSONstringify(v.f[k])])
      [] v.t = "array" ->
           Arr([j \in 1..Len(v.a) |->
                  IF v.a[j].t = "undefined" THEN Null ELSE JSONstringify(v.a[j])])
      [] OTHER -> v

\* { ...jsonObj }  (line 109): the own enumerable properties of jsonObj in a
\* fresh plain object.
Spread(v) ==
    CASE v.t = "object" -> v
      [] v.t = "array" ->
           Obj([k \in {NatChars(j - 1) : j \in {j \in 1..Len(v.a) : v.a[j].t # "undefined"}}
                     \cup DOMAIN v.x |->
                  IF IsIndexKey(k) THEN v.a[IndexOf(k) + 1] ELSE v.x[k]])
      [] v.t = "string" ->
           Obj([k \in {NatChars(j - 1) : j \in 1..Len(v.s)} |-> Str(<<v.s[IndexOf(k) + 1]>>)])
      [] OTHER -> Obj(NoProps)

(***************************************************************************)
(* Rows and nodes.  A row is [key, value, type]; key <<>> stands for an    *)
(* absent key (the code tests a key for truthiness only, which an absent   *)
(* and an empty key both fail).  A node is [path, text]; the node with no  *)
(* rows and the empty path stands for no selected node: every             *)
(* nodeData?. access of the code gives on it what it gives on null.        *)
(***************************************************************************)
Details == <<"d", "e", "t", "a", "i", "l", "s">>
NoNode == [path |-> <<>>, text |-> <<>>]

\* normalizeNodeData's filter without its test of "details"
DisplayedRowWithDetails(row) ==
    row.type # "array" /\ row.type # "object" /\ row.key # <<>>

\* normalizeNodeData's filter  (line 20)
DisplayedRow(row) ==
    row.type # "array" /\ row.type # "object" /\ row.key # <<>> /\ row.key # Details

\* the effect's filter  (line 49)
SeededRow(row) ==
    row.type # "array" /\ row.type # "object" /\ row.key # <<>> /\ row.key # Details

\* the Cancel handler's filter without its test of "details"
ResetRowWithDetails(row) ==
    row.type # "array" /\ row.type # "object" /\ row.key # <<>>

\* the Cancel handler's filter  (line 203)
ResetRow(row) ==
    row.type # "array" /\ row.type # "object" /\ row.key # <<>> /\ row.key # Details

\* handleSave's filter  (line 111)
SavedRow(row) ==
    row.type # "array" /\ row.type # "object" /\ row.key # <<>> /\ row.key # Details

\* the rendering without the test of "details" of line 162
RenderedRowWithDetails(row) ==
    ~(row.type = "array" \/ row.type = "object") /\ ~(row.key = <<>>)

\* the rows that get a TextInput in edit mode  (lines 157-162)
RenderedRow(row) ==
    ~(row.type = "array" \/ row.type = "object") /\ ~(row.key = <<>> \/ row.key = Details)

\* String(row.value), without the ?? "": null seeds the text "null"
SeedTextOfNull(value) == JSString(value)

\* String(row.value ?? "")  (lines 50, 170, 204)
SeedText(value) ==
    IF value.t \in {"null", "undefined"} THEN <<>> ELSE JSString(value)

\* The row indices of the code count from 0.
RowIdx(rows) == 0..(Len(rows) - 1)
RowAt(rows, idx) == rows[idx + 1]

\* the map the effect builds  (lines 46-52)
EffectMap(node) ==
    [idx \in {i \in RowIdx(node.text) : SeededRow(RowAt(node.text, i))} |->
        SeedText(RowAt(node.text, idx).value)]

\* the map the Cancel handler builds  (lines 201-206)
CancelMap(node) ==
    [idx \in {i \in RowIdx(node.text) : ResetRow(RowAt(node.text, i))} |->
        SeedText(RowAt(node.text, idx).value)]

(***************************************************************************)
(* The graph layer, which turns the document into the nodes that can be    *)
(* selected: one node per object of the document, with a row per property  *)
(* (a nested container as a row of type "array" or "object"), and one      *)
(* node, with a single row without key, per scalar that is the document    *)
(* itself or an element of an array.                                       *)
(***************************************************************************)
\* The keys the documents of this model are written with, in the order they
\* are written in.
Name == <<"n", "a", "m", "e">>
Age == <<"a", "g", "e">>
User == <<"u", "s", "e", "r">>
Tags == <<"t", "a", "g", "s">>
Count == <<"c", "o", "u", "n", "t">>
Other == <<"o", "t", "h", "e", "r">>
KeyOrder == <<Name, Age, Details, User, Tags, Count, Other>>

\* The place of a key in the property order of an object: the index keys
\* first, in ascending order, then the others in the order they were written.
Written(k) == {j \in 1..Len(KeyOrder) : KeyOrder[j] = k}
KeyRank(k) ==
    IF IsIndexKey(k) THEN IndexOf(k) - 1000
    ELSE IF Written(k) = {} THEN 1000
    ELSE CHOOSE j \in Written(k) : TRUE

\* the keys S in property order
RECURSIVE KeysFrom(_, _)
KeysFrom(S, first) == <<first>> \o (IF S = {first} THEN <<>> ELSE
    KeysFrom(S \ {first}, CHOOSE x \in S \ {first} : \A y \in S \ {first} : KeyRank(x) <= KeyRank(y)))
OwnKeys(S) ==
    IF S = {} THEN <<>>
    ELSE KeysFrom(S, CHOOSE x \in S : \A y \in S : KeyRank(x) <= KeyRank(y))

RowOf(key, v) ==
    [key |-> key,
     value |-> CASE v.t = "array" -> Str(<<"[", "]">>)
                 [] v.t = "object" -> Str(<<"{", "}">>)
                 [] OTHER -> v,
     type |-> v.t]

RECURSIVE PathsOf(_)
PathsOf(v) ==
    CASE v.t = "object" ->
           {<<>>} \cup UNION {{<<KeySeg(k)>> \o p : p \in PathsOf(v.f[k])} : k \in DOMAIN v.f}
      [] v.t = "array" ->
           {<<>>} \cup UNION {{<<IdxSeg(j - 1)>> \o p : p \in PathsOf(v.a[j])} : j \in 1..Len(v.a)}
      [] OTHER -> {<<>>}

RECURSIVE ValueAt(_, _)
ValueAt(v, path) ==
    IF path = <<>> THEN v
    ELSE IF ~CanRead(v) THEN Undefined
    ELSE ValueAt(GetProp(v, PropKey(Head(path))), Tail(path))

ObjectNode(path, v, keys) ==
    [path |-> path, text |-> [j \in 1..Len(keys) |-> RowOf(keys[j], v.f[keys[j]])]]
NodeFor(path, v) ==
    IF v.t = "object" THEN ObjectNode(path, v, OwnKeys(DOMAIN v.f))
    ELSE [path |-> path, text |-> <<RowOf(<<>>, v)>>]
NodeOf(doc, path) == NodeFor(path, ValueAt(doc, path))

HasNode(path, v) ==
    \/ v.t = "object"
    \/ v.t # "array" /\ (path = <<>> \/ path[Len(path)].ty = "number")
IsNodePath(doc, path) == HasNode(path, ValueAt(doc, path))

NodesOf(doc) == {NodeOf(doc, path) : path \in {q \in PathsOf(doc) : IsNodePath(doc, q)}}

(***************************************************************************)
(* jsonPathToString  (lines 28-32).  Its parameter is optional: Absent     *)
(* stands for a path that is undefined, Given(p) for the path p.           *)
(***************************************************************************)
Absent == [given |-> FALSE, segs |-> <<>>]
Given(p) == [given |-> TRUE, segs |-> p]

\* a segment left as it is, whatever its type
PathSegmentUnquoted(seg) == IF seg.ty = "number" THEN NatChars(seg.i) ELSE seg.k

\* line 30: a number is kept (join prints it in decimal), a string is put
\* between double quotes
PathSegment(seg) ==
    IF seg.ty = "number" THEN NatChars(seg.i) ELSE <<"\"">> \o seg.k \o <<"\"">>

\* segments.join(sep)
RECURSIVE Join(_, _)
Join(parts, sep) ==
    IF parts = <<>> THEN <<>>
    ELSE IF Len(parts) = 1 THEN parts[1]
    ELSE parts[1] \o sep \o Join(Tail(parts), sep)

\* line 31
Bracketed(segments) == <<"$", "[">> \o Join(segments, <<"]", "[">>) \o <<"]">>

jsonPathToString(path) ==
    IF ~path.given \/ Len(path.segs) = 0 THEN <<"$">>
    ELSE Bracketed([j \in 1..Len(path.segs) |-> PathSegment(path.segs[j])])

(***************************************************************************)
(* normalizeNodeData  (lines 13-25).  obj is kept as the sequence of its   *)
(* members [k, v] in the order the keys were first assigned; the keys of   *)
(* this model are not index keys.  The values of rows are scalars, which   *)
(* JSON.stringify prints on one line; the texts of this model hold no      *)
(* character that it escapes.  A missing nodeRows is the empty sequence:   *)
(* the call of line 146 passes nodeData?.text ?? [].                       *)
(***************************************************************************)
\* JSON.stringify of a scalar
JSONText(v) == IF v.t = "string" THEN <<"\"">> \o v.s \o <<"\"">> ELSE JSString(v)

\* obj[key] = value  (line 21)
SetMember(members, key, value, at) ==
    IF at = {} THEN Append(members, [k |-> key, v |-> value])
    ELSE [j \in 1..Len(members) |-> IF j \in at THEN [k |-> key, v |-> value] ELSE members[j]]
PutMember(members, key, value) ==
    SetMember(members, key, value, {j \in 1..Len(members) : members[j].k = key})

\* lines 18-23: the rows from idx on, against obj
RECURSIVE DisplayedMembers(_, _, _)
DisplayedNext(rows, idx, members, row) ==
    DisplayedMembers(rows, idx + 1,
                     IF DisplayedRow(row) THEN PutMember(members, row.key, row.value)
                     ELSE members)
DisplayedMembers(rows, idx, members) ==
    IF idx >= Len(rows) THEN members
    ELSE DisplayedNext(rows, idx, members, RowAt(rows, idx))

\* JSON.stringify(obj, null, 2)  (line 24)
MemberLine(mbr) == <<" ", " ", "\"">> \o mbr.k \o <<"\"", ":", " ">> \o JSONText(mbr.v)
PrettyObject(members) ==
    IF members = <<>> THEN <<"{", "}">>
    ELSE <<"{", "\n">>
         \o Join([j \in 1..Len(members) |-> MemberLine(members[j])], <<",", "\n">>)
         \o <<"\n", "}">>

normalizeNodeData(nodeRows) ==
    IF Len(nodeRows) = 0 THEN <<"{", "}">>
    ELSE IF Len(nodeRows) = 1 /\ nodeRows[1].key = <<>> THEN JSString(nodeRows[1].value)
    ELSE PrettyObject(DisplayedMembers(nodeRows, 0, <<>>))

(***************************************************************************)
(* The synchronous part of handleSave between the parse and the            *)
(* serialization  (lines 100-120): the document handed to jsonToContent,   *)
(* or ok = FALSE when setAtPath throws.                                    *)
(***************************************************************************)
IsScalarNode(node) == Len(node.text) = 1 /\ node.text[1].key = <<>>

\* what is handed to jsonToContent, unless setAtPath threw
Stringified(ok, v) == [ok |-> ok, json |-> IF ok THEN JSONstringify(v) ELSE Undefined]

\* editedValues[0] ?? ""  (line 101)
FirstEdited(editedValues) ==
    IF 0 \in DOMAIN editedValues THEN editedValues[0] ELSE <<>>

\* line 103, newObj being what setAtPath returned
ScalarContent(newObj) == Stringified(newObj.ok, newObj.ret)

\* lines 101-103
ScalarSave(jsonObj, node, editedValues) ==
    ScalarContent(setAtPath(jsonObj, node.path, Null, inferValue(FirstEdited(editedValues))))

\* lines 110-118: the rows in order, from row idx on, against updated
RECURSIVE ApplyRows(_, _, _, _)
ApplyNext(set, node, editedValues, idx) ==
    IF set.ok THEN ApplyRows(set.obj, node, editedValues, idx + 1) ELSE Thrown
ApplyRow(updated, node, editedValues, idx, row) ==
    IF SavedRow(row) /\ idx \in DOMAIN editedValues
    THEN ApplyNext(setAtPath(updated, node.path, Str(row.key), inferValue(editedValues[idx])),
                   node, editedValues, idx)
    ELSE ApplyRows(updated, node, editedValues, idx + 1)
ApplyRows(updated, node, editedValues, idx) ==
    IF idx >= Len(node.text) THEN Done(updated)
    ELSE ApplyRow(updated, node, editedValues, idx, RowAt(node.text, idx))

\* line 120, updated being what the loop left
CompositeContent(updated) == Stringified(updated.ok, updated.v)

\* lines 109-120
CompositeSave(jsonObj, node, editedValues) ==
    CompositeContent(ApplyRows(Spread(jsonObj), node, editedValues, 0))

\* lines 100-120
SaveDocument(jsonObj, node, editedValues) ==
    IF IsScalarNode(node) THEN ScalarSave(jsonObj, node, editedValues)
    ELSE CompositeSave(jsonObj, node, editedValues)

(***************************************************************************)
(* The dialog.                                                             *)
(*   opened        the opened prop  (line 34)                              *)
(*   nodeData      useGraph's selectedNode  (line 35)                      *)
(*   editedValues  the edit buffer, row index -> text  (line 41)           *)
(*   editMode      TRUE in EDIT, FALSE in VIEW  (line 42)                  *)
(*   contents      the document the file store holds, as the value its     *)
(*                 text denotes                                            *)
(*   saves         the calls of the Save click handler, in the order of    *)
(*                 the clicks: each with the nodeData and editedValues of  *)
(*                 the render its closure was made in, the await it is at, *)
(*                 and what it has done                                    *)
(*   last          the last event: [op, save, mode, edited, reverted],     *)
(*                 with the mode before it, whether the buffer before it   *)
(*                 held typed text, and for an Edit click whether it       *)
(*                 follows directly a Cancel that dropped typed text       *)
(*   call          a call of one of the pure helpers on its own, with its  *)
(*                 arguments and what it returned (see Calls below)        *)
(***************************************************************************)
VARIABLES opened, nodeData, editedValues, editMode, contents, saves, last, call

vars == <<opened, nodeData, editedValues, editMode, contents, saves, last, call>>

\* no helper has been called on its own
NoCall == [fn |-> "none"]

\* The bounds of the model: the Save clicks of a run, and how many of the
\* texts below can be typed and of the documents below can be loaded.
MaxSaves == 2
MaxTexts == 2
MaxDocs == 3

\* The texts that can be typed into a field.
AllTexts ==
    << <<"9">>,
       <<"C", "a", "r", "o", "l">>,
       <<>>,
       <<"0", "0", "7">>,
       <<"{", "\"", "a", "\"", ":", "1", "}">> >>

\* The documents the file store can hold at the start:
\*   {"name":"42","details":"x"}
\*   [{"age":null},true]
\*   {"user":{"name":"Bob","tags":[5]}}
\*   {"count":5,"other":1}
\*   {"name":"","age":1.5}
AllDocs ==
    << Obj((Name :> Str(<<"4", "2">>)) @@ (Details :> Str(<<"x">>))),
       Arr(<<Obj(Age :> Null), Bool(TRUE)>>),
       Obj(User :> Obj((Name :> Str(<<"B", "o", "b">>)) @@ (Tags :> Arr(<<IntNum(5)>>)))),
       Obj((Count :> IntNum(5)) @@ (Other :> IntNum(1))),
       Obj((Name :> Str(<<>>)) @@ (Age :> Num(15, 1))) >>

Min(a, b) == IF a < b THEN a ELSE b
Texts == {AllTexts[i] : i \in 1..Min(MaxTexts, Len(AllTexts))}
Docs == {AllDocs[i] : i \in 1..Min(MaxDocs, Len(AllDocs))}

Event(op, i) ==
    [op |-> op, save |-> i, reverted |-> (op = "edit" /\ last.op = "cancel" /\ last.edited),
     mode |-> editMode,
     edited |-> editedValues # EffectMap(nodeData)]

Pending(s) == s.pc # "done"

\* The saves still pending belong to a session that has now been dropped.
Discard(ss) ==
    [i \in 1..Len(ss) |-> IF Pending(ss[i]) THEN [ss[i] EXCEPT !.discarded = TRUE] ELSE ss[i]]

Init ==
    /\ opened = FALSE
    /\ nodeData = NoNode
    /\ editedValues = NoProps
    /\ editMode = FALSE
    /\ contents \in Docs
    /\ saves = <<>>
    /\ last = [op |-> "init", save |-> 0, reverted |-> FALSE, mode |-> FALSE, edited |-> FALSE]
    /\ call = NoCall

\* The effect  (lines 44-55), run for the props (isOpen, node) after a
\* change of either: the buffer and the mode it leaves.
EffectBuffer(isOpen, node) == IF isOpen THEN EffectMap(node) ELSE editedValues
EffectMode(isOpen) == IF isOpen THEN FALSE ELSE editMode

\* The caller opens the dialog.
Open ==
    /\ ~opened
    /\ opened' = TRUE
    /\ editedValues' = EffectBuffer(TRUE, nodeData)
    /\ editMode' = EffectMode(TRUE)
    /\ last' = Event("open", 0)
    /\ UNCHANGED <<call, nodeData, contents, saves>>

\* The close button, or the Modal's own close request  (lines 129, 140):
\* the caller closes the dialog; the component keeps its state.
Close ==
    /\ opened
    /\ opened' = FALSE
    /\ saves' = Discard(saves)
    /\ last' = Event("close", 0)
    /\ UNCHANGED <<call, nodeData, editedValues, editMode, contents>>

\* Another node of the graph of the current document becomes the selected
\* node, the dialog open or not.
SelectNode(node) ==
    /\ node # nodeData
    /\ nodeData' = node
    /\ editedValues' = EffectBuffer(opened, node)
    /\ editMode' = EffectMode(opened)
    /\ saves' = Discard(saves)
    /\ last' = Event("select", 0)
    /\ UNCHANGED <<call, opened, contents>>

\* an Edit button that would also seed the buffer anew
EditReseeding ==
    /\ opened
    /\ editMode' = TRUE
    /\ editedValues' = EffectMap(nodeData)
    /\ last' = Event("edit", 0)
    /\ UNCHANGED <<call, opened, nodeData, contents, saves>>

\* The Edit button  (lines 137-139)
Edit ==
    /\ opened
    /\ editMode' = TRUE
    /\ last' = Event("edit", 0)
    /\ UNCHANGED <<call, opened, nodeData, editedValues, contents, saves>>

\* setEditedValue  (lines 57-59), from the TextInput of a rendered row
\* (lines 155-176)
setEditedValue(idx, value) ==
    [i \in DOMAIN editedValues \cup {idx} |-> IF i = idx THEN value ELSE editedValues[i]]

Type(idx, value) ==
    /\ opened /\ editMode
    /\ idx \in RowIdx(nodeData.text) /\ RenderedRow(RowAt(nodeData.text, idx))
    /\ editedValues' = setEditedValue(idx, value)
    /\ last' = Event("type", 0)
    /\ UNCHANGED <<call, opened, nodeData, editMode, contents, saves>>

\* The Cancel button  (lines 196-212)
Cancel ==
    /\ opened /\ editMode
    /\ editedValues' = CancelMap(nodeData)
    /\ editMode' = FALSE
    /\ saves' = Discard(saves)
    /\ last' = Event("cancel", 0)
    /\ UNCHANGED <<call, opened, nodeData, contents>>

(***************************************************************************)
(* The Save button  (lines 213-222) and handleSave  (lines 94-126).  A     *)
(* click runs handleSave up to its first await; each later action is the   *)
(* settling of the promise a save awaits, followed by the code up to the   *)
(* next await.  The collaborators contentToJson, jsonToContent and         *)
(* setContents may each resolve or reject.  When handleSave returns, the   *)
(* click handler resumes with no other task in between and leaves edit     *)
(* mode (line 218).                                                        *)
(***************************************************************************)
\* a save that would hand the contents it read to jsonToContent without
\* awaiting contentToJson
NewSaveUnparsed ==
    [pc |-> "serialize", node |-> nodeData, buf |-> editedValues, contents |-> contents,
     json |-> Undefined, called |-> FALSE, staleCall |-> FALSE, closes |-> 0,
     result |-> "pending", error |-> "none", failedAt |-> "none",
     discarded |-> FALSE, afterCancel |-> last.reverted]

\* lines 96-98: the closure's nodeData and editedValues, the contents read
NewSave ==
    [pc |-> "parse", node |-> nodeData, buf |-> editedValues, contents |-> contents,
     json |-> Undefined, called |-> FALSE, staleCall |-> FALSE, closes |-> 0,
     result |-> "pending", error |-> "none", failedAt |-> "none",
     discarded |-> FALSE, afterCancel |-> last.reverted]

\* A save that has returned keeps what it did; its closure is dropped.
Returned(s) ==
    [s EXCEPT !.pc = "done", !.node = NoNode, !.buf = NoProps,
              !.contents = Undefined, !.json = Undefined,
              !.discarded = FALSE, !.staleCall = FALSE, !.afterCancel = FALSE]

\* a catch that would also signal the caller
CaughtAndClosed(s) ==
    [Returned(s) EXCEPT !.result = "failed", !.error = "caught", !.failedAt = s.pc,
                        !.closes = s.closes + 1]

\* lines 123-125: the catch, entered from the await (or the code after it)
\* the save was at
Caught(s) ==
    [Returned(s) EXCEPT !.result = "failed", !.error = "caught", !.failedAt = s.pc]

\* lines 104, 121: setContents is called with the serialized document
CallSetContents(s) ==
    [s EXCEPT !.pc = "persist", !.called = TRUE, !.staleCall = s.discarded]

\* lines 105-106, 122: onClose?.() and the return
Closed(s) == [Returned(s) EXCEPT !.result = "ok", !.closes = s.closes + 1]

\* line 218, the mode the click handler leaves after handleSave returned
\* with the given outcome
ModeAfterSave(ok) == FALSE

ClickSave ==
    /\ opened /\ editMode
    /\ Len(saves) < MaxSaves
    /\ saves' = Append(saves, NewSave)
    /\ last' = Event("save", Len(saves) + 1)
    /\ UNCHANGED <<call, opened, nodeData, editedValues, editMode, contents>>

\* handleSave returns through its catch; the click handler resumes.
SaveFails(i) ==
    /\ saves' = [saves EXCEPT ![i] = Caught(saves[i])]
    /\ editMode' = ModeAfterSave(FALSE)
    /\ last' = Event("saveFailed", i)
    /\ UNCHANGED <<call, opened, nodeData, editedValues, contents>>

\* contentToJson resolves: lines 100-103 or 109-120
Parsed(i, doc) ==
    IF doc.ok
    THEN /\ saves' = [saves EXCEPT ![i].pc = "serialize", ![i].json = doc.json]
         /\ last' = Event("parsed", i)
         /\ UNCHANGED <<call, opened, nodeData, editedValues, editMode, contents>>
    ELSE SaveFails(i)

ParseResolved(i) ==
    /\ saves[i].pc = "parse"
    /\ Parsed(i, SaveDocument(saves[i].contents, saves[i].node, saves[i].buf))

ParseRejected(i) ==
    /\ saves[i].pc = "parse"
    /\ SaveFails(i)

\* jsonToContent resolves: lines 104, 121
SerializeResolved(i) ==
    /\ saves[i].pc = "serialize"
    /\ saves' = [saves EXCEPT ![i] = CallSetContents(saves[i])]
    /\ last' = Event("serialized", i)
    /\ UNCHANGED <<call, opened, nodeData, editedValues, editMode, contents>>

SerializeRejected(i) ==
    /\ saves[i].pc = "serialize"
    /\ SaveFails(i)

\* setContents resolves: the store holds the new document; lines 105, 122
\* signal the caller, which closes the dialog; then line 218.
PersistResolved(i) ==
    /\ saves[i].pc = "persist"
    /\ contents' = saves[i].json
    /\ saves' = [saves EXCEPT ![i] = Closed(saves[i])]
    /\ opened' = FALSE
    /\ editMode' = ModeAfterSave(TRUE)
    /\ last' = Event("saveOk", i)
    /\ UNCHANGED <<call, nodeData, editedValues>>

PersistRejected(i) ==
    /\ saves[i].pc = "persist"
    /\ SaveFails(i)

Next ==
    \/ Open
    \/ Close
    \/ \E node \in NodesOf(contents) : SelectNode(node)
    \/ Edit
    \/ \E idx \in RowIdx(nodeData.text), value \in Texts : Type(idx, value)
    \/ Cancel
    \/ ClickSave
    \/ \E i \in 1..Len(saves) : ParseResolved(i)
    \/ \E i \in 1..Len(saves) : ParseRejected(i)
    \/ \E i \in 1..Len(saves) : SerializeResolved(i)
    \/ \E i \in 1..Len(saves) : SerializeRejected(i)
    \/ \E i \in 1..Len(saves) : PersistResolved(i)
    \/ \E i \in 1..Len(saves) : PersistRejected(i)

Spec == Init /\ [][Next]_vars

(***************************************************************************)
(* Calls: the pure helpers of the component, each called on its own with   *)
(* arguments drawn from the sets below, once in a run.  The dialog stays   *)
(* as constructed; call holds the call, [fn, its arguments, result].       *)
(***************************************************************************)
\* The bounds of the arguments: the segments of a path.
MaxPath == 2

KeyA == <<"a">>
KeyB == <<"b">>
KeyC == <<"c">>

\* obj: {}, {"a":{}}, {"a":{"b":{"c":0}}}, {"a":[]}, {"a":"s"}, {"a":null},
\*      [], [{"c":0}], "s", null
CallObjs ==
    { Obj(NoProps),
      Obj(KeyA :> Obj(NoProps)),
      Obj(KeyA :> Obj(KeyB :> Obj(KeyC :> IntNum(0)))),
      Obj(KeyA :> Arr(<<>>)),
      Obj(KeyA :> Str(<<"s">>)),
      Obj(KeyA :> Null),
      Arr(<<>>),
      Arr(<<Obj(KeyC :> IntNum(0))>>),
      Str(<<"s">>),
      Null }

CallSegs == {KeySeg(KeyA), KeySeg(KeyB), IdxSeg(0), IdxSeg(1)}
CallPaths == UNION {[1..n -> CallSegs] : n \in 0..MaxPath}
CallKeys == {Null, Str(KeyC), Str(<<"0">>)}
CallValues == {IntNum(1), Str(<<"v">>)}

CallInit ==
    /\ opened = FALSE
    /\ nodeData = NoNode
    /\ editedValues = NoProps
    /\ editMode = FALSE
    /\ contents = AllDocs[1]
    /\ saves = <<>>
    /\ last = [op |-> "init", save |-> 0, reverted |-> FALSE, mode |-> FALSE, edited |-> FALSE]
    /\ call = NoCall

Idle == UNCHANGED <<opened, nodeData, editedValues, editMode, contents, saves, last>>

\* setAtPath(obj, path, key, value)  (lines 73-92)
CallSetAtPath(obj, path, key, value) ==
    /\ call = NoCall
    /\ call' = [fn |-> "setAtPath", obj |-> obj, path |-> path, key |-> key,
                value |-> value, result |-> setAtPath(obj, path, key, value)]
    /\ Idle

\* The bound of the generated raw strings: their length.
MaxLen == 3

\* the raw strings: every string of at most MaxLen of the characters below,
\* and the texts listed
InferChars == {"0", "7", "-", ".", "e"}
InferTexts ==
    { <<>>,
      <<"4", "2">>,
      <<"t", "r", "u", "e">>,
      <<"f", "a", "l", "s", "e">>,
      <<"n", "u", "l", "l">>,
      <<"{", "\"", "a", "\"", ":", "1", "}">>,
      <<"h", "e", "l", "l", "o">>,
      <<"0", "0", "7">>,
      <<"-", "0", "1", ".", "5", "0">>,
      <<" ", "7", " ">>,
      <<"[", "1", ",", " ", "t", "r", "u", "e", "]">>,
      <<"\"", "x", "\"">>,
      <<"t", "r", "u", "e", "x">>,
      <<"T", "r", "u", "e">>,
      <<"1", "e", "2">>,
      <<"{", "a", ":", "1", "}">> }
CallTexts == InferTexts \cup UNION {[1..n -> InferChars] : n \in 0..MaxLen}

\* inferValue(val)  (lines 61-71)
CallInferValue(val) ==
    /\ call = NoCall
    /\ call' = [fn |-> "inferValue", val |-> val, result |-> inferValue(val)]
    /\ Idle

\* the paths printed: none, those of setAtPath's calls, ["a",1,"b"] and a
\* key that holds a double quote
CallPathArgs ==
    {Absent} \cup {Given(p) : p \in CallPaths}
    \cup {Given(<<KeySeg(KeyA), IdxSeg(1), KeySeg(KeyB)>>),
          Given(<<KeySeg(<<"q", "\"">>), IdxSeg(10)>>)}

\* jsonPathToString(path)  (lines 28-32)
CallJsonPathToString(path) ==
    /\ call = NoCall
    /\ call' = [fn |-> "jsonPathToString", path |-> path, result |-> jsonPathToString(path)]
    /\ Idle

\* two calls on the same root with the same path, the second one then
\* repeated: first is what the first call returned
Repeated(first, second, path, k2, v2) ==
    [first |-> first, second |-> second,
     third |-> IF second.ok THEN setAtPath(second.obj, path, k2, v2) ELSE second]
Successive(first, path, k2, v2) ==
    Repeated(first, IF first.ok THEN setAtPath(first.obj, path, k2, v2) ELSE first,
             path, k2, v2)

\* setAtPath(obj, path, k1, v1); setAtPath(obj, path, k2, v2), as the loop of
\* lines 110-118 calls it; then the second call once more
CallSetAtPathTwice(obj, path, k1, v1, k2, v2) ==
    /\ call = NoCall
    /\ call' = [fn |-> "setAtPathTwice", obj |-> obj, path |-> path,
                k1 |-> k1, v1 |-> v1, k2 |-> k2, v2 |-> v2,
                result |-> Successive(setAtPath(obj, path, k1, v1), path, k2, v2)]
    /\ Idle

\* The bound of the rows handed to normalizeNodeData.
MaxRows == 2

\* the rows: each key (none, "a", "b", "details") with each scalar, and as
\* the row of a nested object and of a nested array
CallRowKeys == {<<>>, KeyA, KeyB, Details}
CallRowValues == {Str(<<"x">>), IntNum(5), Null, Bool(TRUE), Obj(NoProps), Arr(<<>>)}
CallRowSet == {RowOf(key, v) : key \in CallRowKeys, v \in CallRowValues}
CallRows == UNION {[1..n -> CallRowSet] : n \in 0..MaxRows}

\* normalizeNodeData(nodeRows)  (lines 13-25)
CallNormalizeNodeData(nodeRows) ==
    /\ call = NoCall
    /\ call' = [fn |-> "normalizeNodeData", rows |-> nodeRows,
                result |-> normalizeNodeData(nodeRows)]
    /\ Idle

CallsNext ==
    \/ \E obj \in CallObjs, path \in CallPaths, key \in CallKeys, value \in CallValues :
         CallSetAtPath(obj, path, key, value)
    \/ \E val \in CallTexts : CallInferValue(val)
    \/ \E path \in CallPathArgs : CallJsonPathToString(path)
    \/ \E nodeRows \in CallRows : CallNormalizeNodeData(nodeRows)
    \/ \E obj \in CallObjs, path \in CallPaths, k1, k2 \in CallKeys \ {Null},
          v1, v2 \in CallValues :
         CallSetAtPathTwice(obj, path, k1, v1, k2, v2)

Calls == CallInit /\ [][CallsNext]_vars

(***************************************************************************)
(* What the specification expects, stated on its own terms.                *)
(***************************************************************************)
\* the editable-row predicate
EditableRow(row) ==
    row.key # <<>> /\ row.type \notin {"array", "object"} /\ row.key # Details

EditableIdx(node) == {i \in RowIdx(node.text) : EditableRow(RowAt(node.text, i))}

\* projectEditBuffer: String(value), null and undefined as ""
SeedOf(node) ==
    [idx \in EditableIdx(node) |->
        IF RowAt(node.text, idx).value.t \in {"null", "undefined"} THEN <<>>
        ELSE JSString(RowAt(node.text, idx).value)]

\* doc with the slot at path (a path of doc) holding v, all else as in doc
RECURSIVE WithSlot(_, _, _)
WithSlot(doc, path, v) ==
    IF path = <<>> THEN v
    ELSE IF doc.t = "object"
    THEN Obj([k \in DOMAIN doc.f |->
                IF k = Head(path).k THEN WithSlot(doc.f[k], Tail(path), v) ELSE doc.f[k]])
    ELSE [doc EXCEPT !.a = [j \in 1..Len(doc.a) |->
                IF j = Head(path).i + 1 THEN WithSlot(doc.a[j], Tail(path), v) ELSE doc.a[j]]]

\* doc with, for every editable row from idx on that has a buffer entry, the
\* field row.key of the container at node.path holding infer(buffer[idx])
RECURSIVE WithRows(_, _, _, _)
WithRows(doc, node, buf, idx) ==
    IF idx >= Len(node.text) THEN doc
    ELSE IF EditableRow(RowAt(node.text, idx)) /\ idx \in DOMAIN buf
    THEN WithRows(WithSlot(doc, Append(node.path, KeySeg(RowAt(node.text, idx).key)),
                           inferValue(buf[idx])),
                  node, buf, idx + 1)
    ELSE WithRows(doc, node, buf, idx + 1)

\* save i is at its last await and this step is the one where it succeeds
Succeeds(i) == saves[i].pc = "persist" /\ saves'[i].result = "ok"

\* the rows of the closure of save i reflect the document it read
Current(i) == saves[i].node \in NodesOf(saves[i].contents)

(***************************************************************************)
(* The claims                                                              *)
(***************************************************************************)
\* C1: a save leaves EDIT for VIEW if and only if it succeeded: when the
\* Save click handler finishes after a failed parse, serialization or
\* persist in a session that was in EDIT, the session is still in EDIT, and
\* after a successful save it is in VIEW.
EditModeLeftOnlyOnSuccess ==
    /\ (last.op = "saveFailed" /\ last.mode) => editMode
    /\ last.op = "saveOk" => ~editMode

\* C2: a successful save of a scalar node at path P, whose row reflects the
\* document read, persists that document with only the slot at P replaced
\* by infer(buffered value).
ScalarSaveReplacesSlot ==
    [][\A i \in 1..Len(saves) :
         (Succeeds(i) /\ IsScalarNode(saves[i].node) /\ Current(i))
         => contents' = WithSlot(saves[i].contents, saves[i].node.path,
                                 inferValue(FirstEdited(saves[i].buf)))]_vars

\* C3: a successful save of a composite node at path P, whose rows reflect
\* the document read, persists that document with the field of every
\* editable row that has a buffer entry set to infer(buffer[i]) in the
\* container at P, and every other location unchanged.
CompositeSaveFrame ==
    [][\A i \in 1..Len(saves) :
         (Succeeds(i) /\ ~IsScalarNode(saves[i].node) /\ Current(i))
         => contents' = WithRows(saves[i].contents, saves[i].node, saves[i].buf, 0)]_vars

\* C4: typed edits, then Cancel, then a save with no further typing, on a
\* node whose rows reflect the document: the save persists the document
\* unchanged.  Stated for the composite nodes of a document whose root is an
\* object, the case that involves neither the scalar branch (C2) nor the
\* copy of an array root (C19).
SaveAfterCancelKeepsDocument ==
    [][\A i \in 1..Len(saves) :
         (Succeeds(i) /\ saves[i].afterCancel /\ Current(i)
            /\ ~IsScalarNode(saves[i].node) /\ saves[i].contents.t = "object")
         => contents' = saves[i].contents]_vars

\* C5: at most one save is pending at any time.
AtMostOneSavePending ==
    Cardinality({i \in 1..Len(saves) : Pending(saves[i])}) <= 1

\* C6: after a session was discarded by Cancel, by closing the dialog or by
\* a switch of node, no save of that session calls setContents with a
\* document made from the text typed in it.
DiscardedEditsNotPersisted ==
    \A i \in 1..Len(saves) :
        ~(/\ saves[i].pc = "persist"
          /\ saves[i].staleCall
          /\ saves[i].buf # SeedOf(saves[i].node))

\* C7: when the dialog is opened, or the selected node changes while it is
\* open, the session is in VIEW and the buffer is exactly the seed of the
\* node's editable rows, whatever the mode and the buffer were before.
OpenOrSelectReseeds ==
    (last.op \in {"open", "select"} /\ opened)
    => (~editMode /\ editedValues = SeedOf(nodeData))

\* the dialog was opened, or another node selected, from EDIT with typed text
\* in the buffer, onto a node that has an editable row
ReseededFromEdit ==
    /\ last.op \in {"open", "select"} /\ opened
    /\ last.mode /\ last.edited
    /\ EditableIdx(nodeData) # {}

\* C8, as stated: in every reachable state the keys of the buffer are
\* indices of editable rows of the current node.
BufferKeysEditable == DOMAIN editedValues \subseteq EditableIdx(nodeData)

\* C8, amended: whenever the dialog is open, the keys of the buffer are
\* indices of editable rows of the current node.
BufferKeysEditableWhileOpen == opened => BufferKeysEditable

\* text was typed into the open dialog on a node that also has a row which
\* is not editable
TypedBesideFixedRow ==
    /\ opened /\ editMode /\ last.op = "type"
    /\ EditableIdx(nodeData) # RowIdx(nodeData.text)
    /\ editedValues # SeedOf(nodeData)

\* C9: Cancel in EDIT moves the session to VIEW and resets the buffer to the
\* seed of the current node's rows: no typed text remains.
CancelReseeds ==
    last.op = "cancel" => (~editMode /\ editedValues = SeedOf(nodeData))

\* Cancel was clicked with typed text in the buffer
CancelledTypedText == last.op = "cancel" /\ last.mode /\ last.edited

\* C10: a save signals onClose exactly once when parse, serialization and
\* persist all succeeded and never when one of them failed; a failure is
\* caught inside the save, and setContents is not called after a failed
\* parse or serialization.
CloseSignalledOnSuccessOnly ==
    \A i \in 1..Len(saves) :
        /\ saves[i].result = "ok" => (saves[i].closes = 1 /\ saves[i].called)
        /\ saves[i].result # "ok" => saves[i].closes = 0
        /\ saves[i].result = "failed" => saves[i].error = "caught"
        /\ saves[i].failedAt \in {"parse", "serialize"} => ~saves[i].called

\* of two saves, one succeeded and the other failed after its parse
SavedAndFailed ==
    \E i, j \in 1..Len(saves) :
        /\ saves[i].result = "ok"
        /\ saves[j].result = "failed" /\ saves[j].failedAt \in {"serialize", "persist"}


\* C11: within one save the steps are strictly ordered: while contentToJson
\* is awaited nothing has been mutated or serialized, the mutated document
\* exists before jsonToContent is awaited, setContents is called only once
\* jsonToContent has resolved, and a save moves from one await to the next
\* only, or returns.
SaveStepsOrdered ==
    \A i \in 1..Len(saves) :
        /\ saves[i].pc = "parse" => (saves[i].json = Undefined /\ ~saves[i].called)
        /\ saves[i].pc = "serialize" =>
             /\ ~saves[i].called
             /\ saves[i].json =
                  SaveDocument(saves[i].contents, saves[i].node, saves[i].buf).json
             /\ saves[i].json # Undefined
        /\ saves[i].pc = "persist" =>
             /\ saves[i].called
             /\ saves[i].json =
                  SaveDocument(saves[i].contents, saves[i].node, saves[i].buf).json
        /\ saves[i].called => saves[i].failedAt \notin {"parse", "serialize"}

\* a save of typed text has gone through its parse, its mutation and its
\* serialization and has called setContents
SaveReachedPersist ==
    \E i \in 1..Len(saves) :
        /\ saves[i].pc = "persist"
        /\ saves[i].buf # SeedOf(saves[i].node)
        /\ saves[i].json # saves[i].contents

\* the first i segments of path
Prefix(path, i) == SubSeq(path, 1, i)

\* every value on the way down path in obj is an object or an array, as far
\* as there is one
Walkable(obj, path) ==
    \A i \in 0..Len(path) :
        ValueAt(obj, Prefix(path, i)).t \in {"object", "array", "undefined"}

\* the last call was setAtPath with a key
SetWithKey == call.fn = "setAtPath" /\ call.key # Null

\* C12: setAtPath with a non-null key, on a document whose values along path
\* are containers as far as they exist, completes and returns obj; every
\* container that was missing at path[1..i] has been made, an array when
\* path[i+1] is a number and an object otherwise (the last segment
\* included); and the result holds value at path followed by key.  On {}
\* with path ["a","b"], key "c" and value 1 it gives {"a":{"b":{"c":1}}}.
SetAtPathCreatesContainers ==
    SetWithKey =>
      /\ Walkable(call.obj, call.path) => call.result.ok
      /\ call.result.ok =>
           /\ call.result.ret = call.result.obj
           /\ ValueAt(call.result.obj, Append(call.path, KeySeg(call.key.s))) = call.value
           /\ \A i \in 1..Len(call.path) :
                ValueAt(call.obj, Prefix(call.path, i)) = Undefined
                => ValueAt(call.result.obj, Prefix(call.path, i)).t =
                     IF i < Len(call.path) /\ call.path[i + 1].ty = "number"
                     THEN "array" ELSE "object"
      /\ (/\ call.obj = Obj(NoProps)
          /\ call.path = <<KeySeg(KeyA), KeySeg(KeyB)>>
          /\ call.key = Str(KeyC) /\ call.value = IntNum(1))
         => call.result.obj = Obj(KeyA :> Obj(KeyB :> Obj(KeyC :> IntNum(1))))

\* setAtPath was called with a key on {} and a path of a key and then an
\* index: it made an array and, in it, an object
SetAtPathMadeArray ==
    /\ SetWithKey /\ call.result.ok
    /\ call.obj = Obj(NoProps)
    /\ call.path = <<KeySeg(KeyA), IdxSeg(1)>>
    /\ ValueAt(call.result.obj, <<KeySeg(KeyA)>>).t = "array"
    /\ ValueAt(call.result.obj, call.path).t = "object"

\* the kinds of value a call can return
ValueKinds == {"null", "boolean", "number", "string", "object", "array"}

\* C13: infer follows one ordered chain and always returns a value: "" gives
\* null; otherwise a string that JSON.parse accepts gives the parsed value;
\* otherwise a string of an optional minus, digits and an optional fraction
\* gives that number; otherwise "true" / "false" give the boolean; otherwise
\* the raw string.  "42" gives 42, "true" gives true, {"a":1} gives the
\* object, "hello" gives the string "hello".
InferFollowsChain ==
    call.fn = "inferValue" =>
      /\ call.result.t \in ValueKinds
      /\ call.result =
           IF call.val = <<>> THEN Null
           ELSE IF JSONparse(call.val).ok THEN JSONparse(call.val).v
           ELSE IF NumericPattern(call.val) THEN NumberOf(call.val)
           ELSE IF call.val = <<"t", "r", "u", "e">> THEN Bool(TRUE)
           ELSE IF call.val = <<"f", "a", "l", "s", "e">> THEN Bool(FALSE)
           ELSE Str(call.val)
      /\ call.val = <<"4", "2">> => call.result = IntNum(42)
      /\ call.val = <<"t", "r", "u", "e">> => call.result = Bool(TRUE)
      /\ call.val = <<"h", "e", "l", "l", "o">> => call.result = Str(call.val)
      /\ call.val = <<"{", "\"", "a", "\"", ":", "1", "}">>
         => call.result = Obj(KeyA :> IntNum(1))
      /\ call.val = <<"0", "0", "7">> => call.result = IntNum(7)
      /\ call.val = <<"-", "0", "1", ".", "5", "0">> => call.result = Num(-15, 1)
      /\ call.val = <<"7", ".">> => call.result = Str(call.val)

\* infer was called on a string JSON.parse rejects and the pattern accepts
InferredByPattern ==
    /\ call.fn = "inferValue"
    /\ call.val = <<"0", "0", "7">>
    /\ ~JSONparse(call.val).ok
    /\ call.result.t = "number"

\* one bracket group per segment, in order: [N] or ["key"]
RECURSIVE Groups(_)
Groups(segs) ==
    IF segs = <<>> THEN <<>>
    ELSE (IF Head(segs).ty = "number"
          THEN <<"[">> \o NatChars(Head(segs).i) \o <<"]">>
          ELSE <<"[", "\"">> \o Head(segs).k \o <<"\"", "]">>)
         \o Groups(Tail(segs))

\* C14: formatPath gives "$" for the empty or absent path, and otherwise
\* "$" followed in order by one bracket group per segment, [N] for a number
\* and ["key"] for a string, the key as it is; ["a",1,"b"] gives
\* $["a"][1]["b"].
PathPrintedInGroups ==
    call.fn = "jsonPathToString" =>
      /\ call.result = <<"$">> \o Groups(call.path.segs)
      /\ ~call.path.given => call.result = <<"$">>
      /\ call.path = Given(<<KeySeg(KeyA), IdxSeg(1), KeySeg(KeyB)>>)
         => call.result = <<"$", "[", "\"", "a", "\"", "]", "[", "1", "]",
                            "[", "\"", "b", "\"", "]">>

\* a path of keys and an index was printed, among them a key holding a quote
PrintedMixedPath ==
    /\ call.fn = "jsonPathToString"
    /\ call.path = Given(<<KeySeg(<<"q", "\"">>), IdxSeg(10)>>)
    /\ call.result = <<"$", "[", "\"", "q", "\"", "\"", "]", "[", "1", "0", "]">>

\* segment i of path meets, in obj, a value of another shape than it asks
\* for: a number meets an object, a string meets an array, or either meets a
\* scalar or null
Conflicts(obj, path, i) ==
    \/ path[i].ty = "number" /\ ValueAt(obj, Prefix(path, i - 1)).t = "object"
    \/ path[i].ty = "string" /\ ValueAt(obj, Prefix(path, i - 1)).t = "array"
    \/ ValueAt(obj, Prefix(path, i - 1)).t \in {"null", "boolean", "number", "string"}

\* C15: when a segment of the path conflicts with the shape of the value it
\* meets, setAtPath fails with an error: it does not complete with a write
\* on the mismatched container.
ConflictFailsFast ==
    (call.fn = "setAtPath" /\ \E i \in 1..Len(call.path) : Conflicts(call.obj, call.path, i))
    => ~call.result.ok

\* the property names a path goes through
Names(path) == [j \in 1..Len(path) |-> PropKey(path[j])]

\* p and q name places one of which lies inside the other
Overlap(p, q) ==
    \A j \in 1..(IF Len(p) < Len(q) THEN Len(p) ELSE Len(q)) : Names(p)[j] = Names(q)[j]

\* C16: two calls of setAtPath on the same root with the same path and
\* different keys accumulate: the container at path then holds both values,
\* every place of the document the first call left, other than the second
\* key's, is as the first call left it (no container made by the first call
\* is made again or emptied), and the second call repeated changes nothing.
SetAtPathAccumulates ==
    (call.fn = "setAtPathTwice" /\ call.result.first.ok) =>
      /\ call.result.second.ok /\ call.result.third.ok
      /\ call.result.third.obj = call.result.second.obj
      /\ ValueAt(call.result.second.obj, Append(call.path, KeySeg(call.k2.s))) = call.v2
      /\ call.k1 # call.k2 =>
           /\ ValueAt(call.result.second.obj, Append(call.path, KeySeg(call.k1.s)))
                = call.v1
           /\ \A q \in PathsOf(call.result.first.obj) :
                Overlap(q, Append(call.path, KeySeg(call.k2.s)))
                \/ ValueAt(call.result.second.obj, q) = ValueAt(call.result.first.obj, q)

\* two keys were set one after the other below a path of two segments that
\* the first call had to make in {}
AccumulatedInMadeContainers ==
    /\ call.fn = "setAtPathTwice"
    /\ call.obj = Obj(NoProps) /\ Len(call.path) = 2
    /\ call.k1 # call.k2
    /\ call.result.second.ok
    /\ ValueAt(call.result.second.obj, Append(call.path, KeySeg(call.k1.s))) = call.v1
    /\ ValueAt(call.result.second.obj, Append(call.path, KeySeg(call.k2.s))) = call.v2

\* C17: enterEdit leaves the session in EDIT with the buffer, the selected
\* node and the stored document unchanged; invoked in EDIT it changes
\* nothing of the dialog.
EditOnlyEntersEdit ==
    [][last'.op = "edit" =>
         /\ editMode'
         /\ UNCHANGED <<editedValues, nodeData, contents, opened, saves>>
         /\ editMode => UNCHANGED editMode]_vars

\* Edit was clicked in VIEW with a seeded buffer
EditedFromView ==
    /\ last.op = "edit" /\ ~last.mode /\ editMode
    /\ editedValues # NoProps

\* the editable rows of rows
EditableOf(rows) == {j \in 1..Len(rows) : EditableRow(rows[j])}

\* the value the last editable row with key k holds
LastValue(rows, k) ==
    rows[CHOOSE j \in EditableOf(rows) :
           rows[j].key = k /\ \A h \in EditableOf(rows) : rows[h].key = k => h <= j].value

\* C18: projectDisplay gives "{}" for no rows, the bare text of the value
\* for exactly one row without key, and otherwise the pretty-printed object
\* whose keys are exactly the keys of the editable rows, each with its row's
\* value: no row of type "array" or "object", without key or with key
\* "details" appears in it.
DisplayShowsEditableRows ==
    call.fn = "normalizeNodeData" =>
      /\ call.rows = <<>> => call.result = <<"{", "}">>
      /\ (Len(call.rows) = 1 /\ call.rows[1].key = <<>>) =>
           call.result = IF call.rows[1].value.t = "string" THEN call.rows[1].value.s
                         ELSE JSString(call.rows[1].value)
      /\ (Len(call.rows) > 1 \/ (Len(call.rows) = 1 /\ call.rows[1].key # <<>>)) =>
           /\ JSONparse(call.result).ok
           /\ JSONparse(call.result).v.t = "object"
           /\ DOMAIN JSONparse(call.result).v.f
                = {call.rows[j].key : j \in EditableOf(call.rows)}
           /\ \A k \in DOMAIN JSONparse(call.result).v.f :
                JSONparse(call.result).v.f[k] = LastValue(call.rows, k)
           /\ EditableOf(call.rows) # {} =>
                SubSeq(call.result, 1, 5) = <<"{", "\n", " ", " ", "\"">>

\* the display of a row keyed "details" beside an editable row: {"a": 5},
\* on three lines
DisplayedBesideDetails ==
    /\ call.fn = "normalizeNodeData"
    /\ call.rows = <<RowOf(Details, Str(<<"x">>)), RowOf(KeyA, IntNum(5))>>
    /\ call.result = <<"{", "\n", " ", " ", "\"", "a", "\"", ":", " ", "5", "\n", "}">>

\* C19: a successful save of a composite node, whose rows reflect the
\* document read, in a document whose root is an array persists a document
\* whose root is an array of the same length, with the same element at
\* every index the node's path does not go through.
ArrayRootKept ==
    [][\A i \in 1..Len(saves) :
         (Succeeds(i) /\ ~IsScalarNode(saves[i].node) /\ Current(i)
            /\ saves[i].contents.t = "array")
         => /\ contents'.t = "array"
            /\ Len(contents'.a) = Len(saves[i].contents.a)
            /\ \A j \in 1..Len(saves[i].contents.a) :
                 j = saves[i].node.path[1].i + 1 \/ contents'.a[j] = saves[i].contents.a[j]]_vars

=============================================================================
